---- MODULE Spec2Model ----
(***************************************************************************)
(* The keepalived signals framework (lib/signals.c): a registration table  *)
(* of per-signal callbacks, a self-pipe that carries signal numbers from   *)
(* the asynchronous trampoline to the synchronous dispatcher, the record   *)
(* of the dispositions found at start-up, and the lifecycle calls.         *)
(*                                                                         *)
(* Build modelled: Linux, glibc, HAVE_PIPE2, no _WITH_JSON_, no _DEBUG_    *)
(* (NDEBUG is defined, so assert() is empty).                              *)
(*                                                                         *)
(* The process state is gathered in a record (operator Cur) so that the    *)
(* C functions, which call each other, compose as operators on records.    *)
(***************************************************************************)
EXTENDS Integers, Sequences, FiniteSets, TLC

(* ---- signal numbers (Linux, all architectures except alpha and sparc) -- *)
SIGHUP == 1
SIGINT == 2
SIGILL == 4
SIGBUS == 7
SIGFPE == 8
SIGKILL == 9
SIGUSR1 == 10
SIGSEGV == 11
SIGUSR2 == 12
SIGTERM == 15
SIGCHLD == 17
SIGSTOP == 19
SIGRTMAX == 64
SIG_MAX == 17

(* ---- pointer values -------------------------------------------------- *)
\* SIG_DFL is the null pointer in C: signal_set(n, NULL, v) is the default
\* path, and the NULL returned for a bad signal number is the same value.
NULL == "NULL"
SIG_DFL == NULL
SIG_IGN == "SIG_IGN"
SIG_ERR == "SIG_ERR"
\* the address of the trampoline, as sigaction() reports it
TRAMPOLINE == "signal_handler"

(* ---- bounds of the model --------------------------------------------- *)
\* size of the descriptor table (RLIMIT_NOFILE); 0, 1, 2 are stdin/out/err
MaxFd == 7
\* capacity of a pipe, in records of sizeof(int) bytes
PipeCap == 2
\* longest run of deliveries the history records after an install
MaxBurst == 3
\* calls and deliveries in one run
MaxSteps == 5
\* calls and deliveries in one run of installs, deliveries and dispatches
MaxSignalSteps == 6
\* the statements, deliveries and calls a run of SpecInstall takes
MaxInstallSteps == 12

(* ---- inputs ----------------------------------------------------------- *)
\* signal numbers passed to signal_ignore()
Signos == {SIGTERM}
\* <<signo, func, v>> passed to signal_set(): signal numbers on both sides
\* of the valid range, two ordinary signals, one the kernel refuses
\* (SIGKILL) and one that signal_handler_init() leaves out (SIGSEGV)
Installs ==
    {<<0, "A", "c1">>, <<SIG_MAX + 1, "B", "c2">>,
     <<SIGHUP, "A", "c1">>, <<SIGHUP, "B", "c2">>,
     <<SIGHUP, SIG_IGN, "c1">>, <<SIGHUP, SIG_DFL, NULL>>,
     <<SIGTERM, "B", "c2">>, <<SIGKILL, "A", "c1">>, <<SIGSEGV, "A", "c1">>}
\* signals the environment raises
Raised == {SIGHUP, SIGSEGV, SIGTERM}
\* thresholds passed to signal_pipe_close()
MinFds == {4}
\* dispositions inherited from the parent shell: SIGHUP ignored (nohup) or not
InheritedIgnored == {{}, {SIGHUP}}

Fds == 0 .. (MaxFd - 1)
PipeIds == 1 .. MaxFd

FreeFd == [kind |-> "free", pipe |-> 0]
StdFd == [kind |-> "std", pipe |-> 0]
PipeFd(k, p) == [kind |-> k, pipe |-> p]

VARIABLES
    signal_handler_func,   \* signals.c:78   callback of each slot
    signal_v,              \* signals.c:79   context of each slot
    signal_pipe,           \* signals.c:81   [rd |-> signal_pipe[0], wr |-> signal_pipe[1]]
    ign_sig,               \* signals.c:84   signals found ignored by init
    dfl_sig,               \* signals.c:85   signals found not ignored by init
    parent_sig,            \* signals.c:88   signals a handler was set for
    sa_handler,            \* kernel: disposition of each signal
    sigmask,               \* kernel: blocked signals of the thread
    fdtab,                 \* kernel: descriptor table of the process
    pipebuf,               \* kernel: queued records of each pipe
    role,                  \* "parent"; "child" after fork(), "reset" once
                           \* signal_handler_child_clear() ran in the child
    parent_pipe,           \* in a child: the pipe the parent's signal_pipe names
    invoked,               \* callbacks invoked by the last signal_run_callback()
    hist,                  \* the calls and deliveries since the last install
    pre_init,              \* dispositions at the last signal_handler_init() call
    inited,                \* signal_handler_init() has run
    steps,                 \* calls and deliveries the run may still take
    pc,                    \* where a signal_set() in progress stands
    call,                  \* its arguments, and osig once sigaction() ran
    pending                \* signals that arrived while blocked

vars == <<signal_handler_func, signal_v, signal_pipe, ign_sig, dfl_sig,
          parent_sig, sa_handler, sigmask, fdtab, pipebuf, role,
          parent_pipe, invoked, hist, pre_init, inited, steps,
          pc, call, pending>>

\* the state the C functions read and write, as one record
Cur ==
    [func |-> signal_handler_func, v |-> signal_v, pipe |-> signal_pipe,
     ign |-> ign_sig, dfl |-> dfl_sig, par |-> parent_sig,
     sa |-> sa_handler, mask |-> sigmask, fds |-> fdtab, buf |-> pipebuf,
     ppipe |-> parent_pipe, ret |-> NULL, log |-> <<>>]

Commit(s) ==
    /\ signal_handler_func' = s.func
    /\ signal_v' = s.v
    /\ signal_pipe' = s.pipe
    /\ ign_sig' = s.ign
    /\ dfl_sig' = s.dfl
    /\ parent_sig' = s.par
    /\ sa_handler' = s.sa
    /\ sigmask' = s.mask
    /\ fdtab' = s.fds
    /\ pipebuf' = s.buf
    /\ invoked' = s.log

(* ======================= the kernel ==================================== *)

\* signals whose disposition cannot be changed and that cannot be blocked
KernelOnly == {SIGKILL, SIGSTOP}

\* sigaction(sig, &act, ...) with a non-null act returns -1 (EINVAL)
sigaction_fails(sig) ==
    sig < 1 \/ sig > SIGRTMAX \/ sig \in KernelOnly

\* sigaction(sig, &act, ...): the new disposition, when the kernel accepts it
sigaction(s, sig, h) ==
    IF sigaction_fails(sig) THEN s ELSE [s EXCEPT !.sa[sig] = h]

\* sigaction() on every signal of a set, as the loops over 1..SIGRTMAX do it
sigaction_each(s, sigs, h) ==
    [s EXCEPT !.sa = [sig \in DOMAIN @ |->
        IF sig \in sigs /\ ~sigaction_fails(sig) THEN h ELSE @[sig]]]

\* sigprocmask(SIG_BLOCK, {sig}): SIGKILL and SIGSTOP are silently left out
sigprocmask_block(s, sig) ==
    [s EXCEPT !.mask = @ \cup ({sig} \ KernelOnly)]

sigprocmask_unblock(s, sig) ==
    [s EXCEPT !.mask = @ \ {sig}]

IsEnd(s, fd, k) == fd \in Fds /\ s.fds[fd].kind = k

\* pipes some descriptor of this process, or the parent, still names
LivePipes(s) ==
    {s.fds[fd].pipe : fd \in {x \in Fds : s.fds[x].kind \in {"r", "w"}}}
        \cup {s.ppipe}

Min(S) == CHOOSE x \in S : \A y \in S : x <= y

\* close(fd): EBADF, and nothing happens, unless fd is open; the records
\* of a pipe nobody names any more are gone
close(s, fd) ==
    IF ~(fd \in Fds /\ s.fds[fd].kind # "free") THEN s
    ELSE LET p == s.fds[fd].pipe
             s1 == [s EXCEPT !.fds[fd] = FreeFd]
         IN  IF p \in PipeIds /\ p \notin LivePipes(s1)
             THEN [s1 EXCEPT !.buf[p] = <<>>] ELSE s1

\* pipe2(signal_pipe, O_CLOEXEC | O_NONBLOCK): the two lowest free
\* descriptors; fails (EMFILE) and leaves signal_pipe alone without two
pipe2_fails(s) == Cardinality({fd \in Fds : s.fds[fd] = FreeFd}) < 2

pipe2(s) ==
    LET free == {fd \in Fds : s.fds[fd] = FreeFd}
        r == Min(free)
        w == Min(free \ {r})
        p == Min(PipeIds \ LivePipes(s))
    IN  [s EXCEPT !.fds[r] = PipeFd("r", p), !.fds[w] = PipeFd("w", p),
                  !.buf[p] = <<>>, !.pipe = [rd |-> r, wr |-> w]]

\* write(fd, &sig, sizeof(int)) on a non-blocking pipe: all of the record
\* or nothing (EAGAIN when full, EBADF when fd is no open write end)
write_ok(s, fd) ==
    IsEnd(s, fd, "w") /\ Len(s.buf[s.fds[fd].pipe]) < PipeCap

write(s, fd, sig) ==
    [s EXCEPT !.buf[s.fds[fd].pipe] = Append(@, sig)]

\* read(fd, &sig, sizeof(int)) returns sizeof(int): a record is queued
read_ok(s, fd) ==
    IsEnd(s, fd, "r") /\ s.buf[s.fds[fd].pipe] # <<>>

(* ======================= lib/signals.c ================================= *)

\* mutant: a signal already queued is not queued again
signal_handler_Coalesce(s, sig) ==
    IF write_ok(s, s.pipe.wr)
       /\ \A i \in 1 .. Len(s.buf[s.fds[s.pipe.wr].pipe]) :
             s.buf[s.fds[s.pipe.wr].pipe][i] # sig
    THEN write(s, s.pipe.wr, sig) ELSE s

\* mutant: a record that finds the pipe full pushes the queued ones out
signal_handler_Flush(s, sig) ==
    IF write_ok(s, s.pipe.wr) THEN write(s, s.pipe.wr, sig)
    ELSE IF IsEnd(s, s.pipe.wr, "w")
         THEN [s EXCEPT !.buf[s.fds[s.pipe.wr].pipe] = <<sig>>]
         ELSE s

\* signals.c:132-141. In this build assert(0) is empty: a failed write
\* is logged and the delivery is lost.
signal_handler(s, sig) ==
    IF write_ok(s, s.pipe.wr) THEN write(s, s.pipe.wr, sig) ELSE s

\* mutant: the upper limit is off by one
BadSigno_OffByOne(signo) == signo < 1 \/ signo > SIG_MAX + 1

\* signals.c:152
BadSigno(signo) == signo < 1 \/ signo > SIG_MAX

\* signals.c:157
NotHandled(func) == func = SIG_IGN \/ func = SIG_DFL

\* signals.c:157-167: what sigaction() is given
NewDisposition(func) == IF NotHandled(func) THEN func ELSE TRAMPOLINE

\* signals.c:163 and 187: what the slot's callback becomes
NewFunc(func) == IF NotHandled(func) THEN NULL ELSE func

\* mutant: the context is not cleared with the callback
NewV_Kept(func, v) == v

\* signals.c:164 and 188: what the slot's context becomes
NewV(func, v) == IF NotHandled(func) THEN NULL ELSE v

\* mutant: the signal is remembered but not blocked
BlockAndRemember_Unblocked(s, signo, func) ==
    IF NewFunc(func) # NULL
    THEN [s EXCEPT !.par = @ \cup {signo}]
    ELSE s

\* signals.c:175-183
BlockAndRemember(s, signo, func) ==
    IF NewFunc(func) # NULL
    THEN [sigprocmask_block(s, signo) EXCEPT !.par = @ \cup {signo}]
    ELSE s

\* mutant: the context is not stored
StoreSlot_NoContext(s, signo, func, v) ==
    [s EXCEPT !.func[signo] = NewFunc(func)]

\* signals.c:187-188 (slot signo is signal_handler_func[signo-1])
StoreSlot(s, signo, func, v) ==
    [s EXCEPT !.func[signo] = NewFunc(func), !.v[signo] = NewV(func, v)]

\* mutant: the signal is not released
Release_Blocked(s, old, signo, func) ==
    IF sigaction_fails(signo) THEN [s EXCEPT !.ret = SIG_ERR]
    ELSE [s EXCEPT !.ret = old.sa[signo]]

\* signals.c:190-197
Release(s, old, signo, func) ==
    IF sigaction_fails(signo) THEN [s EXCEPT !.ret = SIG_ERR]
    ELSE [(IF NewFunc(func) # NULL THEN sigprocmask_unblock(s, signo) ELSE s)
            EXCEPT !.ret = old.sa[signo]]

\* signals.c:144-198
signal_set(s, signo, func, v) ==
    IF BadSigno(signo) THEN [s EXCEPT !.ret = NULL]
    ELSE LET s1 == BlockAndRemember(s, signo, func)
             s2 == sigaction(s1, signo, NewDisposition(func))
             s3 == StoreSlot(s2, signo, func, v)
         IN  Release(s3, s, signo, func)

\* signals.c:201-205
signal_ignore(s, signo) == signal_set(s, signo, SIG_IGN, NULL)

\* signals.c:207-214 (signal_v is left as it is)
clear_signal_handler_addresses(s) ==
    [s EXCEPT !.func = [i \in DOMAIN @ |-> NULL]]

\* signals.c:217-239. A failed pipe2() is logged and signal_pipe keeps its
\* old values.
open_signal_pipe(s) == IF pipe2_fails(s) THEN s ELSE pipe2(s)

\* mutant: SIGSEGV is not taken out of the set
InitSet_WithSegv ==
    (1 .. SIGRTMAX) \ {SIGILL, SIGFPE, SIGBUS, SIGKILL, SIGSTOP}

\* signals.c:253-259
InitSet ==
    (1 .. SIGRTMAX) \ {SIGILL, SIGFPE, SIGSEGV, SIGBUS, SIGKILL, SIGSTOP}

\* signals.c:265-283
Capture(s) ==
    LET ign == {sig \in InitSet : s.sa[sig] = SIG_IGN}
        dfl == InitSet \ ign
    IN  [sigaction_each(s, dfl, SIG_IGN)
            EXCEPT !.ign = ign, !.dfl = dfl, !.par = {}]

\* signals.c:241-284
signal_handler_init(s) ==
    Capture(clear_signal_handler_addresses(open_signal_pipe(s)))

\* signals.c:296-299
IgnoreParentSignals(s) ==
    sigaction_each(s, s.par \cap (1 .. SIGRTMAX), SIG_IGN)

\* signals.c:286-304
signal_handler_child_clear(s) ==
    clear_signal_handler_addresses(open_signal_pipe(IgnoreParentSignals(s)))

\* signals.c:310-315, in call order
ClearedSignals == <<SIGHUP, SIGINT, SIGTERM, SIGCHLD, SIGUSR1, SIGUSR2>>

RECURSIVE SetEach(_, _, _)
SetEach(s, sigs, state) ==
    IF sigs = <<>> THEN s
    ELSE SetEach(signal_set(s, Head(sigs), state, NULL), Tail(sigs), state)

\* signals.c:306-319
signal_handlers_clear(s, state) == SetEach(s, ClearedSignals, state)

\* mutant: the descriptors are closed but not marked closed
ClosePipe_Unmarked(s) == close(close(s, s.pipe.wr), s.pipe.rd)

\* signals.c:325-328
ClosePipe(s) ==
    [close(close(s, s.pipe.wr), s.pipe.rd) EXCEPT !.pipe = [rd |-> -1, wr |-> -1]]

\* signals.c:321-329
signal_handler_destroy(s) == ClosePipe(signal_handlers_clear(s, SIG_IGN))

\* mutant: every captured signal is set to the default disposition
signal_handler_script_AllDefault(s) ==
    sigaction_each(s, s.ign \cup s.dfl, SIG_DFL)

\* signals.c:333-352
signal_handler_script(s) ==
    sigaction_each(sigaction_each(s, s.ign, SIG_IGN), s.dfl \ s.ign, SIG_DFL)

\* mutant: the slot is called without a look at what it holds
RunOne_Unchecked(s, sig) ==
    IF sig >= 1 /\ sig <= SIG_MAX
    THEN [s EXCEPT !.log = Append(@, <<s.func[sig], s.v[sig], sig>>)]
    ELSE s

\* signals.c:367-368: one record read from the pipe
RunOne(s, sig) ==
    IF sig >= 1 /\ sig <= SIG_MAX /\ s.func[sig] # NULL
    THEN [s EXCEPT !.log = Append(@, <<s.func[sig], s.v[sig], sig>>)]
    ELSE s

\* mutant: the newest record is handed over first
NextRecord_Newest(q) == q[Len(q)]

\* signals.c:366: the record read() hands over, and what stays queued
NextRecord(q) == Head(q)

RestOfPipe(q) == Tail(q)

RECURSIVE signal_run_callback(_)
\* signals.c:361-370. The callbacks are the application's: the model
\* records that they were called, with what.
signal_run_callback(s) ==
    IF ~read_ok(s, s.pipe.rd) THEN s
    ELSE LET p == s.fds[s.pipe.rd].pipe
             sig == NextRecord(s.buf[p])
         IN  signal_run_callback(
                 RunOne([s EXCEPT !.buf[p] = RestOfPipe(@)], sig))

\* signals.c:372-378
signal_pipe_close(s, min_fd) ==
    LET s1 == IF s.pipe.rd # 0 /\ s.pipe.rd >= min_fd
              THEN close(s, s.pipe.rd) ELSE s
    IN  IF s1.pipe.wr # 0 /\ s1.pipe.wr >= min_fd
        THEN close(s1, s1.pipe.wr) ELSE s1

(* ======================= history (for the properties) ================== *)

\* One call or delivery. For a signal_set() call: what it returned, and
\* the pipe as the call found it (room: records it could still take, 0
\* unless signal_pipe names the two ends of one open pipe that no parent
\* process shares; stale: records of signo already queued). For a
\* delivery: ret is the disposition the signal had.
Ev(op, signo, func, v, r, room, stale) ==
    [op |-> op, signo |-> signo, func |-> func, v |-> v, ret |-> r,
     room |-> room, stale |-> stale]

Call(op) == Ev(op, 0, NULL, NULL, NULL, 0, 0)

PipeOpen(s) ==
    /\ IsEnd(s, s.pipe.rd, "r")
    /\ IsEnd(s, s.pipe.wr, "w")
    /\ s.fds[s.pipe.rd].pipe = s.fds[s.pipe.wr].pipe

\* what signal_run_callback() would find to read
Queue(s) == IF IsEnd(s, s.pipe.rd, "r") THEN s.buf[s.fds[s.pipe.rd].pipe] ELSE <<>>

Private(s) == PipeOpen(s) /\ s.fds[s.pipe.rd].pipe # s.ppipe

Room(s) == IF Private(s) THEN PipeCap - Len(Queue(s)) ELSE 0

Count(q, x) == Cardinality({i \in 1 .. Len(q) : q[i] = x})

Last(q) == q[Len(q)]

IsInstall(e) ==
    e.op \in {"signal_set", "signal_ignore"} /\ e.signo \in 1 .. SIG_MAX

\* hist is <<signal_set, deliveries..., dispatch>> or <<destroy, destroy>>
\* as far as the run has that shape, and the last call or delivery alone
\* otherwise
AfterDeliver(e) ==
    IF IsInstall(hist[1]) /\ Last(hist).op # "dispatch" /\ Len(hist) <= MaxBurst
    THEN Append(hist, e) ELSE <<e>>

AfterDispatch(e) ==
    IF IsInstall(hist[1]) /\ Last(hist).op = "deliver"
    THEN Append(hist, e) ELSE <<e>>

AfterDestroy(e) == IF Last(hist).op = "destroy" THEN <<e, e>> ELSE <<e>>

(* ======================= the state machine ============================= *)

Start ==
    /\ signal_handler_func = [i \in 1 .. SIG_MAX |-> NULL]
    /\ signal_v = [i \in 1 .. SIG_MAX |-> NULL]
    /\ signal_pipe = [rd |-> -1, wr |-> -1]
    /\ ign_sig = {}
    /\ dfl_sig = {}
    /\ parent_sig = {}
    /\ \E ign \in InheritedIgnored :
          sa_handler = [sig \in 1 .. SIGRTMAX |->
                            IF sig \in ign THEN SIG_IGN ELSE SIG_DFL]
    /\ sigmask = {}
    /\ fdtab = [fd \in Fds |-> IF fd <= 2 THEN StdFd ELSE FreeFd]
    /\ pipebuf = [p \in PipeIds |-> <<>>]
    /\ role = "parent"
    /\ parent_pipe = 0
    /\ invoked = <<>>
    /\ hist = <<Call("start")>>
    /\ pre_init = sa_handler
    /\ inited = FALSE
    /\ pc = "idle"
    /\ call = [signo |-> 0, func |-> NULL, v |-> NULL, old |-> NULL]
    /\ pending = {}

Init == Start /\ steps = MaxSteps

Tick == steps > 0 /\ steps' = steps - 1

\* a whole call, or a delivery: no signal_set() is left half done
Step == Tick /\ UNCHANGED <<pc, call, pending>>

\* the application calls signal_set(signo, func, v)
SignalSet(signo, func, v) ==
    /\ Step
    /\ LET s == signal_set(Cur, signo, func, v)
       IN  /\ Commit(s)
           /\ hist' = <<Ev("signal_set", signo, func, v, s.ret,
                         Room(Cur), Count(Queue(Cur), signo))>>
    /\ UNCHANGED <<role, parent_pipe, pre_init, inited>>

\* the application calls signal_ignore(signo)
SignalIgnore(signo) ==
    /\ Step
    /\ LET s == signal_ignore(Cur, signo)
       IN  /\ Commit(s)
           /\ hist' = <<Ev("signal_ignore", signo, SIG_IGN, NULL, s.ret,
                         Room(Cur), Count(Queue(Cur), signo))>>
    /\ UNCHANGED <<role, parent_pipe, pre_init, inited>>

\* The kernel delivers signal sig to the process. The default action of
\* every signal in Raised ends the process: there is no step to take then.
Deliver(sig) ==
    /\ Step
    /\ sig \notin sigmask
    /\ sa_handler[sig] # SIG_DFL
    /\ Commit(IF sa_handler[sig] = TRAMPOLINE
              THEN signal_handler(Cur, sig) ELSE Cur)
    /\ hist' = AfterDeliver(Ev("deliver", sig, NULL, NULL, sa_handler[sig], 0, 0))
    /\ UNCHANGED <<role, parent_pipe, pre_init, inited>>

\* the event loop calls signal_run_callback()
Dispatch ==
    /\ Step
    /\ Commit(signal_run_callback(Cur))
    /\ hist' = AfterDispatch(Call("dispatch"))
    /\ UNCHANGED <<role, parent_pipe, pre_init, inited>>

HandlerInit ==
    /\ Step
    /\ Commit(signal_handler_init(Cur))
    /\ hist' = <<Call("init")>>
    /\ pre_init' = sa_handler
    /\ inited' = TRUE
    /\ UNCHANGED <<role, parent_pipe>>

\* fork(): the model follows the child, which inherits everything; the
\* parent keeps its pipe open
Fork ==
    /\ Step
    /\ role = "parent"
    /\ role' = "child"
    /\ parent_pipe' = IF PipeOpen(Cur) THEN fdtab[signal_pipe.rd].pipe ELSE 0
    /\ Commit(Cur)
    /\ hist' = <<Call("fork")>>
    /\ UNCHANGED <<pre_init, inited>>

ChildClear ==
    /\ Step
    /\ Commit(signal_handler_child_clear(Cur))
    /\ hist' = <<Call("child_clear")>>
    /\ role' = IF role = "child" THEN "reset" ELSE role
    /\ UNCHANGED <<parent_pipe, pre_init, inited>>

Destroy ==
    /\ Step
    /\ Commit(signal_handler_destroy(Cur))
    /\ hist' = AfterDestroy(Call("destroy"))
    /\ UNCHANGED <<role, parent_pipe, pre_init, inited>>

Script ==
    /\ Step
    /\ Commit(signal_handler_script(Cur))
    /\ hist' = <<Call("script")>>
    /\ UNCHANGED <<role, parent_pipe, pre_init, inited>>

PipeClose(min_fd) ==
    /\ Step
    /\ Commit(signal_pipe_close(Cur, min_fd))
    /\ hist' = <<Ev("pipe_close", min_fd, NULL, NULL, NULL, 0, 0)>>
    /\ UNCHANGED <<role, parent_pipe, pre_init, inited>>

Next ==
    \/ \E i \in Installs : SignalSet(i[1], i[2], i[3])
    \/ \E signo \in Signos : SignalIgnore(signo)
    \/ \E sig \in Raised : Deliver(sig)
    \/ Dispatch
    \/ HandlerInit
    \/ Fork
    \/ ChildClear
    \/ Destroy
    \/ Script
    \/ \E min_fd \in MinFds : PipeClose(min_fd)

Spec == Init /\ [][Next]_vars

\* longer runs of the signal path alone: registration, delivery, dispatch
InitSignal == Start /\ steps = MaxSignalSteps

NextSignal ==
    \/ \E i \in Installs : SignalSet(i[1], i[2], i[3])
    \/ \E signo \in Signos : SignalIgnore(signo)
    \/ \E sig \in Raised : Deliver(sig)
    \/ Dispatch
    \/ HandlerInit

SpecSignal == InitSignal /\ [][NextSignal]_vars

\* signal_set() taken one statement at a time, with signals arriving in
\* between. A signal that arrives blocked stays pending until it is
\* unblocked; the other calls run between two signal_set() calls only.
InitInstall == Start /\ steps = MaxInstallSteps

\* signals.c:152-183: a valid signo; the signal is blocked and remembered
SetBlock(signo, func, v) ==
    /\ Tick
    /\ pc = "idle" /\ ~BadSigno(signo)
    /\ Commit(BlockAndRemember(Cur, signo, func))
    /\ pc' = "sigaction"
    /\ call' = [signo |-> signo, func |-> func, v |-> v, old |-> NULL]
    /\ hist' = <<Call("block")>>
    /\ UNCHANGED <<role, parent_pipe, pre_init, inited, pending>>

\* signals.c:185
SetAction ==
    /\ Tick
    /\ pc = "sigaction"
    /\ Commit(sigaction(Cur, call.signo, NewDisposition(call.func)))
    /\ pc' = "func"
    /\ call' = [call EXCEPT !.old = sa_handler[call.signo]]
    /\ hist' = <<Call("sigaction")>>
    /\ UNCHANGED <<role, parent_pipe, pre_init, inited, pending>>

\* signals.c:187
SetFunc ==
    /\ Tick
    /\ pc = "func"
    /\ Commit([Cur EXCEPT !.func[call.signo] = NewFunc(call.func)])
    /\ pc' = "v"
    /\ hist' = <<Call("func")>>
    /\ UNCHANGED <<role, parent_pipe, pre_init, inited, pending, call>>

\* signals.c:188
SetV ==
    /\ Tick
    /\ pc = "v"
    /\ Commit([Cur EXCEPT !.v[call.signo] = NewV(call.func, call.v)])
    /\ pc' = "release"
    /\ hist' = <<Call("v")>>
    /\ UNCHANGED <<role, parent_pipe, pre_init, inited, pending, call>>

\* what the kernel does with a pending signal that is no longer blocked
Unblocked(s, sig) ==
    IF sig \in pending /\ sig \notin s.mask /\ s.sa[sig] = TRAMPOLINE
    THEN signal_handler(s, sig) ELSE s

\* signals.c:190-197: the signal is unblocked, unless sigaction() failed,
\* and a pending one is delivered before sigprocmask() returns
SetRelease ==
    /\ Tick
    /\ pc = "release"
    /\ LET s == Release(Cur, [sa |-> (call.signo :> call.old)],
                        call.signo, call.func)
       IN  /\ Commit(Unblocked(s, call.signo))
           /\ pending' = pending \cap s.mask
           /\ hist' = <<Ev("signal_set", call.signo, call.func, call.v,
                         s.ret, 0, 0)>>
    /\ pc' = "idle"
    /\ UNCHANGED <<role, parent_pipe, pre_init, inited, call>>

\* the kernel has signal sig for the process while sig is blocked
Pend(sig) ==
    /\ Tick
    /\ sig \in sigmask
    /\ pending' = pending \cup {sig}
    /\ Commit(Cur)
    /\ hist' = <<Ev("pend", sig, NULL, NULL, sa_handler[sig], 0, 0)>>
    /\ UNCHANGED <<role, parent_pipe, pre_init, inited, pc, call>>

IdleDispatch == pc = "idle" /\ Dispatch

IdleInit == pc = "idle" /\ HandlerInit

NextInstall ==
    \/ \E i \in Installs : SetBlock(i[1], i[2], i[3])
    \/ SetAction
    \/ SetFunc
    \/ SetV
    \/ SetRelease
    \/ \E sig \in Raised : Deliver(sig)
    \/ \E sig \in Raised : Pend(sig)
    \/ IdleDispatch
    \/ IdleInit

SpecInstall == InitInstall /\ [][NextInstall]_vars

(* ======================= properties ==================================== *)

\* the part of the state signal_set() may touch
Subsystem ==
    <<signal_handler_func, signal_v, signal_pipe, ign_sig, dfl_sig,
      parent_sig, sa_handler, sigmask, fdtab, pipebuf>>

\* hist is <<signal_set(n, cb, ctx), deliveries..., dispatch>>, cb a callback
Dispatched ==
    /\ Len(hist) >= 3
    /\ hist[1].op = "signal_set"
    /\ hist[1].func \notin {SIG_IGN, SIG_DFL}
    /\ Last(hist).op = "dispatch"

\* the call the install of hist[1] asked for
Registration == <<hist[1].func, hist[1].v, hist[1].signo>>

\* deliveries of signal n that hist records
Deliveries(n) ==
    Cardinality({i \in 2 .. Len(hist) :
                    hist[i].op = "deliver" /\ hist[i].signo = n})

\* invocations for signal n in the last dispatch
InvokedFor(n) == {i \in 1 .. Len(invoked) : invoked[i][3] = n}

\* C1: signal_set() with a signal number below 1 or above SIG_MAX returns
\* NULL and leaves the slots, the dispositions, parent_sig, the signal mask,
\* the descriptors and the pipes as they were.
C1_BadSignoRejected ==
    [][(/\ steps' # steps
        /\ Last(hist').op = "signal_set"
        /\ (Last(hist').signo < 1 \/ Last(hist').signo > SIG_MAX))
       => (Last(hist').ret = NULL /\ UNCHANGED Subsystem)]_vars

\* a bad signal number was passed while a callback was registered and a
\* record was queued
C1_Witness ==
    /\ Last(hist).op = "signal_set"
    /\ Last(hist).signo > SIG_MAX
    /\ signal_handler_func[SIGHUP] # NULL
    /\ Queue(Cur) # <<>>

RegisteredIn(q) ==
    SelectSeq(q, LAMBDA r : r \in 1 .. SIG_MAX /\ signal_handler_func[r] # NULL)

CallsFor(q) ==
    [i \in 1 .. Len(q) |-> <<signal_handler_func[q[i]], signal_v[q[i]], q[i]>>]

\* the signals the trampoline ran for, in order, as hist records them
TrampolineRuns(h) ==
    LET d == SelectSeq(SubSeq(h, 2, Len(h) - 1),
                       LAMBDA e : e.ret = TRAMPOLINE)
    IN  [i \in 1 .. Len(d) |-> d[i].signo]

\* C4: a dispatch invokes, in the order of the records in the pipe, the
\* callback of every record whose slot holds one; and when the pipe was
\* empty at the last install, that is the order in which the trampoline
\* ran since.
C4_Fifo ==
    [][(steps' # steps /\ Last(hist').op = "dispatch")
       => /\ invoked' = CallsFor(RegisteredIn(Queue(Cur)))
          /\ (/\ Len(hist') >= 3
              /\ hist'[1].room = PipeCap
              /\ Len(hist') - 2 <= PipeCap)
             => invoked' = CallsFor(RegisteredIn(TrampolineRuns(hist')))]_vars

\* hangup then terminate were delivered: A was invoked, then B
C4_Witness ==
    /\ Len(hist) = 4
    /\ hist[2].signo = SIGHUP /\ hist[3].signo = SIGTERM
    /\ Last(hist).op = "dispatch"
    /\ invoked = << <<"A", "c1", SIGHUP>>, <<"B", "c2", SIGTERM>> >>

\* slot n is cleared and signal n is not routed to the trampoline
Quiet(func, v, sa, n) == func[n] = NULL /\ v[n] = NULL /\ sa[n] # TRAMPOLINE

IsIgnore(e, n) ==
    /\ e.signo = n
    /\ \/ e.op = "signal_ignore"
       \/ e.op = "signal_set" /\ e.func = SIG_IGN

IsActive(e, n) ==
    e.op = "signal_set" /\ e.signo = n /\ e.func \notin {SIG_IGN, SIG_DFL}

\* C5: signal_set(n, SIG_IGN, ...) and signal_ignore(n), n valid, clear
\* slot n and take the trampoline off n; that lasts until a callback is
\* installed for n; and while it lasts a delivery of n leaves every pipe
\* as it is and a dispatch invokes nothing for n.
C5_Ignored ==
    [][steps' # steps =>
       LET e == hist'[Len(hist')]
           was(n) == Quiet(signal_handler_func, signal_v, sa_handler, n)
           is(n) == Quiet(signal_handler_func', signal_v', sa_handler', n)
       IN  /\ (e.signo \in 1 .. SIG_MAX /\ IsIgnore(e, e.signo))
                 => is(e.signo)
           /\ \/ /\ signal_handler_func' = signal_handler_func
                 /\ signal_v' = signal_v
                 /\ sa_handler' = sa_handler
              \/ \A n \in 1 .. SIG_MAX :
                    (was(n) /\ ~IsActive(e, n)) => is(n)
           /\ (e.op = "deliver" /\ was(e.signo)) => pipebuf' = pipebuf
           /\ e.op = "dispatch"
                 => \A i \in 1 .. Len(invoked') : ~was(invoked'[i][3])]_vars

\* a callback was replaced by SIG_IGN; the signal was then delivered and
\* a dispatch ran
C5_Witness ==
    /\ Len(hist) = 3
    /\ IsIgnore(hist[1], hist[1].signo)
    /\ hist[1].ret = TRAMPOLINE
    /\ hist[2].op = "deliver" /\ hist[2].signo = hist[1].signo
    /\ hist[3].op = "dispatch"
    /\ invoked = <<>>

C7_AsStated ==
    (Last(hist).op = "child_clear" /\ role = "reset")
    => /\ \A sig \in parent_sig : sa_handler[sig] = SIG_IGN
       /\ PipeOpen(Cur)
       /\ fdtab[signal_pipe.rd].pipe # parent_pipe
       /\ Queue(Cur) = <<>>
       /\ \A n \in 1 .. SIG_MAX : signal_handler_func[n] = NULL
       /\ signal_run_callback(Cur).log = <<>>

\* C8: signal_handler_destroy() leaves signal_pipe at {-1, -1}, and called
\* again at once it changes nothing: no descriptor is closed, no slot and
\* no disposition changes.
C8_DestroyTwice ==
    [][(steps' # steps /\ Last(hist').op = "destroy")
       => /\ signal_pipe' = [rd |-> -1, wr |-> -1]
          /\ Last(hist).op = "destroy" => UNCHANGED Subsystem]_vars

\* destroy was called twice in a row, on a pipe that was open and with a
\* callback installed
C8_Witness ==
    /\ Len(hist) = 2 /\ hist[1].op = "destroy" /\ hist[2].op = "destroy"
    /\ inited
    /\ parent_sig # {}
    /\ \A fd \in Fds : fdtab[fd].kind \in {"std", "free"}

\* C9 as stated: between calls, slot n holds a callback exactly when the
\* disposition of signal n is the trampoline.
C9_AsStated ==
    \A n \in 1 .. SIG_MAX :
        signal_handler_func[n] # NULL <=> sa_handler[n] = TRAMPOLINE

\* the signals signal_handler_init() leaves alone
Excluded == {SIGILL, SIGFPE, SIGSEGV, SIGBUS, SIGKILL, SIGSTOP}

\* C10: signal_handler_init() leaves ign_sig and dfl_sig disjoint, with
\* union 1..SIGRTMAX less the six excluded signals; a signal of that union
\* is in ign_sig exactly when it was ignored before the call; every signal
\* of the union is ignored afterwards; the six excluded signals keep their
\* dispositions; no slot holds a callback and parent_sig is empty. No other
\* call changes ign_sig or dfl_sig.
C10_Capture ==
    [][steps' # steps =>
       /\ Last(hist').op = "init" =>
             /\ ign_sig' \cap dfl_sig' = {}
             /\ ign_sig' \cup dfl_sig' = (1 .. SIGRTMAX) \ Excluded
             /\ \A sig \in (1 .. SIGRTMAX) \ Excluded :
                   sig \in ign_sig' <=> sa_handler[sig] = SIG_IGN
             /\ \A sig \in ign_sig' \cup dfl_sig' : sa_handler'[sig] = SIG_IGN
             /\ \A sig \in Excluded \cap (1 .. SIGRTMAX) :
                   sa_handler'[sig] = sa_handler[sig]
             /\ \A n \in 1 .. SIG_MAX : signal_handler_func'[n] = NULL
             /\ parent_sig' = {}
       /\ Last(hist').op # "init" => UNCHANGED <<ign_sig, dfl_sig>>]_vars

\* init ran with SIGHUP ignored, a callback installed on SIGTERM and one
\* on the excluded SIGSEGV
C10_Witness ==
    /\ Last(hist).op = "init"
    /\ SIGHUP \in ign_sig
    /\ pre_init[SIGTERM] = TRAMPOLINE /\ sa_handler[SIGTERM] = SIG_IGN
    /\ pre_init[SIGSEGV] = TRAMPOLINE /\ sa_handler[SIGSEGV] = TRAMPOLINE

\* the trampoline's write cannot complete: signal_pipe[1] is no open write
\* end, or the pipe is full
WriteFails ==
    \/ signal_pipe.wr \notin Fds
    \/ fdtab[signal_pipe.wr].kind # "w"
    \/ Len(pipebuf[fdtab[signal_pipe.wr].pipe]) >= PipeCap

\* C11: a delivery whose write to the pipe cannot complete returns to the
\* program and leaves every pipe, slot, disposition and descriptor as it
\* was: no record is added and the queued records stay; and a dispatch
\* invokes the callbacks of the records it finds queued, in their order,
\* and nothing else, so nothing is invoked for the lost delivery.
C11_LostDelivery ==
    [][steps' # steps =>
       LET e == hist'[Len(hist')]
       IN  /\ (e.op = "deliver" /\ e.ret = TRAMPOLINE /\ WriteFails)
                 => UNCHANGED Subsystem
           /\ e.op = "dispatch"
                 => invoked' = CallsFor(RegisteredIn(Queue(Cur)))]_vars

\* one delivery more than the pipe holds was made after an install, and
\* the pipe still holds the records of the first ones
C11_Witness ==
    /\ Len(hist) = PipeCap + 2
    /\ hist[1].op = "signal_set" /\ hist[1].room = PipeCap
    /\ \A i \in 2 .. Len(hist) :
          hist[i].op = "deliver" /\ hist[i].ret = TRAMPOLINE
    /\ Queue(Cur) = [i \in 1 .. PipeCap |-> hist[1].signo]

\* signal_set() is installing a callback and has blocked the signal
Installing ==
    /\ pc \in {"sigaction", "func", "v", "release"}
    /\ call.func \notin {SIG_IGN, SIG_DFL}

\* C12: while signal_set(n, cb, ctx) installs a callback, n is blocked from
\* before sigaction() until callback and context are stored (SIGKILL
\* apart, which the kernel neither blocks nor lets be handled), and is not
\* blocked when signal_set() has returned; the trampoline does not run for
\* n in between; and an n that arrived meanwhile is written to the pipe by
\* the step that unblocks it, when the slot holds cb and ctx.
C12_BlockedWhileSet ==
    [][steps' # steps =>
       LET n == call.signo
           e == hist'[Len(hist')]
       IN  /\ (Installing /\ n # SIGKILL) => n \in sigmask
           /\ (Installing /\ e.op = "deliver" /\ e.ret = TRAMPOLINE)
                 => e.signo # n
           /\ (Installing /\ pc' = "idle")
                 => /\ n \notin sigmask'
                    /\ signal_handler_func'[n] = call.func
                    /\ signal_v'[n] = call.v
                    /\ (n \in pending /\ ~WriteFails)
                          => pipebuf' = [pipebuf EXCEPT
                                ![fdtab[signal_pipe.wr].pipe] = Append(@, n)]
                    /\ (n \notin pending \/ WriteFails)
                          => pipebuf' = pipebuf]_vars

\* the signal arrived between the store of the callback and the store of
\* the context, while the trampoline was its disposition
C12_Witness ==
    /\ pc = "v"
    /\ Last(hist).op = "pend" /\ Last(hist).signo = call.signo
    /\ sa_handler[call.signo] = TRAMPOLINE
    /\ signal_handler_func[call.signo] = call.func
    /\ signal_v[call.signo] # call.v
    /\ ~WriteFails

\* C13: signal_run_callback() reads until the pipe is empty and changes
\* nothing else; a record whose signal is out of 1..SIG_MAX or whose slot
\* holds no callback when it is read is dropped without a call; every
\* other record is dispatched, in order, to the callback and context its
\* slot holds at that moment, whatever was registered when it was written.
C13_Dispatch ==
    [][(steps' # steps /\ hist'[Len(hist')].op = "dispatch") =>
       LET q == Queue(Cur)
           reg == {i \in 1 .. Len(q) :
                      /\ q[i] \in 1 .. SIG_MAX
                      /\ signal_handler_func[q[i]] # NULL}
       IN  /\ Len(invoked') = Cardinality(reg)
           /\ \A i \in reg :
                 invoked'[Cardinality({j \in reg : j <= i})]
                    = <<signal_handler_func[q[i]], signal_v[q[i]], q[i]>>
           /\ q # <<>> =>
                 pipebuf' = [pipebuf EXCEPT ![fdtab[signal_pipe.rd].pipe] = <<>>]
           /\ q = <<>> => pipebuf' = pipebuf
           /\ UNCHANGED <<signal_handler_func, signal_v, signal_pipe, ign_sig,
                          dfl_sig, parent_sig, sa_handler, sigmask, fdtab>>]_vars

\* a record of a signal was queued when the signal was set to SIG_IGN; the
\* dispatch found it, emptied the pipe and called nothing
C13_Witness ==
    /\ Len(hist) = 3
    /\ hist[1].op = "signal_set" /\ hist[1].func = SIG_IGN
    /\ hist[1].ret = TRAMPOLINE /\ hist[1].stale = 1
    /\ hist[2].op = "deliver" /\ hist[2].signo = hist[1].signo
    /\ hist[3].op = "dispatch"
    /\ PipeOpen(Cur) /\ Queue(Cur) = <<>>
    /\ invoked = <<>>

\* descriptor fd of this process names an end of the pipe the parent's
\* signal_pipe names
OnParentPipe(fd) ==
    fd \in Fds /\ fdtab[fd].kind \in {"r", "w"} /\ fdtab[fd].pipe = parent_pipe

\* C14 as stated: once signal_handler_child_clear() has run in the child,
\* the child's signal_pipe names no end of the parent's pipe, so that no
\* delivery to the parent adds a record the child's dispatch reads and no
\* delivery to the child adds a record the parent's dispatch reads; and
\* no delivery to the child changes the parent's pipe.
C14_AsStated ==
    [][(steps' # steps /\ role' = "reset" /\ parent_pipe # 0) =>
       /\ ~OnParentPipe(signal_pipe.rd)'
       /\ ~OnParentPipe(signal_pipe.wr)'
       /\ hist'[Len(hist')].op = "deliver"
             => pipebuf'[parent_pipe] = pipebuf[parent_pipe]]_vars

\* C15 as stated: when sigaction() fails in signal_set(n, f, ctx), n valid,
\* the call returns SIG_ERR and slot n's callback and context and
\* parent_sig are as they were before the call.
C15_AsStated ==
    [][(/\ steps' # steps
        /\ hist'[Len(hist')].op = "signal_set"
        /\ hist'[Len(hist')].signo \in 1 .. SIG_MAX
        /\ hist'[Len(hist')].signo \in {SIGKILL, SIGSTOP})
       => /\ hist'[Len(hist')].ret = SIG_ERR
          /\ UNCHANGED <<signal_handler_func, signal_v, parent_sig>>]_vars

\* C16: signal_set(n, f, ctx) and signal_ignore(n), n valid, return with n
\* not blocked when n was not blocked at the call, whether sigaction()
\* failed or not and whatever f is; no other signal's blocking changes.
C16_NotLeftBlocked ==
    [][(/\ steps' # steps
        /\ hist'[Len(hist')].op \in {"signal_set", "signal_ignore"}
        /\ hist'[Len(hist')].signo \in 1 .. SIG_MAX
        /\ hist'[Len(hist')].signo \notin sigmask)
       => (hist'[Len(hist')].signo \notin sigmask' /\ sigmask' = sigmask)]_vars

\* sigaction() failed in an install of a callback, which returned SIG_ERR
\* before the statement that unblocks
C16_Witness ==
    /\ Last(hist).op = "signal_set"
    /\ Last(hist).func \notin {SIG_IGN, SIG_DFL}
    /\ Last(hist).ret = SIG_ERR
    /\ Last(hist).signo \in parent_sig
    /\ Last(hist).signo \notin sigmask

\* C17 as stated: in every state every signal whose disposition is the
\* trampoline is in parent_sig, and so when signal_handler_child_clear()
\* has returned no signal has the trampoline as its disposition.
C17_AsStated ==
    /\ \A sig \in 1 .. SIGRTMAX :
          sa_handler[sig] = TRAMPOLINE => sig \in parent_sig
    /\ Last(hist).op = "child_clear"
          => \A sig \in 1 .. SIGRTMAX : sa_handler[sig] # TRAMPOLINE

\* the descriptor numbers a call hands to close(): those of signal_pipe
\* that are descriptor numbers at all and, for signal_pipe_close(), are
\* not below min_fd
Closes(e) ==
    {fd \in {signal_pipe.rd, signal_pipe.wr} \cap Fds :
        \/ e.op = "destroy"
        \/ e.op = "pipe_close" /\ fd # 0 /\ fd >= e.signo}

\* C18 as stated: signal_handler_destroy() and signal_pipe_close() call
\* close() only on descriptors that are open, never on a number the
\* subsystem closed before and has not opened since, and
\* signal_pipe_close(min_fd) closes every open descriptor of signal_pipe
\* that is not below min_fd; signal_handler_init() and
\* signal_handler_child_clear() close nothing.
C18_AsStated ==
    [][steps' # steps =>
       LET e == hist'[Len(hist')]
       IN  /\ \A fd \in Closes(e) : fdtab[fd].kind # "free"
           /\ \A fd \in Closes(e) : fdtab'[fd].kind = "free"
           /\ e.op \in {"init", "child_clear"}
                 => \A fd \in Fds : fdtab[fd].kind # "free"
                                       => fdtab'[fd] = fdtab[fd]]_vars

\* C19 as stated: when signal_handler_destroy() has returned, no signal of
\* 1..SIG_MAX has the trampoline as its disposition and no slot holds a
\* callback (SIGKILL apart, for which none can be installed), so that no
\* delivery makes the trampoline write to a closed descriptor.
C19_AsStated ==
    Last(hist).op = "destroy"
    => \A n \in (1 .. SIG_MAX) \ {SIGKILL} :
          /\ sa_handler[n] # TRAMPOLINE
          /\ signal_handler_func[n] = NULL

====
